---- MODULE Spec2Model ----
(***************************************************************************)
(* Model of decode_grib_file (InReach_Message_Decoder.ipynb, cell          *)
(* "decode-function"): a multi-part text transmission is trimmed, split    *)
(* into lines, the lines at index i with i % 3 = 1 are joined, base64      *)
(* decoded, zlib decompressed and written to output_path.                  *)
(*                                                                         *)
(* Text is a sequence of characters, a character is a one-character        *)
(* string (NonAscii stands for one character above U+007F).  Bytes are     *)
(* integers 0..255.                                                        *)
(***************************************************************************)
EXTENDS Integers, Sequences, FiniteSets, TLC

(***************************************************************************)
(* Characters and text                                                     *)
(***************************************************************************)
NL == "\n"
CR == "\r"
SP == " "
TAB == "\t"
PAD == "="
NonAscii == "U+00E9"

\* The characters str.strip() removes (the ASCII ones that occur here).
Whitespace == {SP, NL, CR, TAB}

RECURSIVE Concat(_)
\* ''.join(seqs): the concatenation, without separator, of a sequence of texts.
Concat(seqs) ==
  IF seqs = <<>> THEN <<>> ELSE Head(seqs) \o Concat(Tail(seqs))

RECURSIVE LStrip(_)
LStrip(s) ==
  IF s # <<>> /\ Head(s) \in Whitespace THEN LStrip(Tail(s)) ELSE s

RECURSIVE RStrip(_)
RStrip(s) ==
  IF s # <<>> /\ s[Len(s)] \in Whitespace
  THEN RStrip(SubSeq(s, 1, Len(s) - 1))
  ELSE s

\* encoded_data.strip()
Strip(s) == RStrip(LStrip(s))

RECURSIVE SplitFrom(_, _, _)
\* The lines of s from position i on, cur being the line collected so far.
SplitFrom(s, i, cur) ==
  IF i > Len(s) THEN <<cur>>
  ELSE IF s[i] = NL THEN <<cur>> \o SplitFrom(s, i + 1, <<>>)
  ELSE SplitFrom(s, i + 1, Append(cur, s[i]))

\* s.split("\n"): always at least one line; "" splits into one empty line.
Split(s) == SplitFrom(s, 1, <<>>)

\* Mutant of Lines: the text is split without being trimmed.
LinesNoStrip(encoded_data) == Split(encoded_data)

\* lines = encoded_data.strip().split("\n")
Lines(encoded_data) == Split(Strip(encoded_data))

\* The 0-based indices i of lines with i % 3 == 1, as 1-based positions.
PayloadPositions(lines) == {k \in 1..Len(lines) : (k - 1) % 3 = 1}

RECURSIVE SelectFrom(_, _)
SelectFrom(lines, k) ==
  IF k > Len(lines) THEN <<>>
  ELSE IF k \in PayloadPositions(lines)
       THEN <<lines[k]>> \o SelectFrom(lines, k + 1)
       ELSE SelectFrom(lines, k + 1)

\* Mutant of Payload: the lines at i % 3 == 0 are taken.
PayloadOffByOne(lines) ==
  Concat([k \in 1..((Len(lines) + 2) \div 3) |-> lines[3 * k - 2]])

\* Mutant of Payload: every line is taken.
PayloadEveryLine(lines) == Concat(lines)

\* ''.join([lines[i] for i in range(len(lines)) if i % 3 == 1])
Payload(lines) == Concat(SelectFrom(lines, 1))

(***************************************************************************)
(* base64.b64decode(payload), validate=False                               *)
(***************************************************************************)
B64Alphabet ==
  << "A","B","C","D","E","F","G","H","I","J","K","L","M","N","O","P",
     "Q","R","S","T","U","V","W","X","Y","Z","a","b","c","d","e","f",
     "g","h","i","j","k","l","m","n","o","p","q","r","s","t","u","v",
     "w","x","y","z","0","1","2","3","4","5","6","7","8","9","+","/" >>

B64Chars == {B64Alphabet[i] : i \in 1..Len(B64Alphabet)}

B64Val(c) == (CHOOSE i \in 1..Len(B64Alphabet) : B64Alphabet[i] = c) - 1

RECURSIVE B64Scan(_, _, _, _)
\* binascii.a2b_base64 in its lenient mode: the 6-bit values read from
\* position i on. A character outside the alphabet is skipped; a pad is
\* skipped unless it completes the padding of a quad of 2 or 3 values, which
\* ends the input (whatever follows is never read).
B64Scan(s, i, vals, pads) ==
  IF i > Len(s) THEN [vals |-> vals, padded |-> FALSE]
  ELSE IF s[i] = PAD
       THEN IF Len(vals) % 4 >= 2 /\ ((Len(vals) % 4) + pads + 1) >= 4
            THEN [vals |-> vals, padded |-> TRUE]
            ELSE B64Scan(s, i + 1, vals,
                         IF Len(vals) % 4 >= 2 THEN pads + 1 ELSE pads)
       ELSE IF s[i] \in B64Chars
            THEN B64Scan(s, i + 1, Append(vals, B64Val(s[i])), 0)
            ELSE B64Scan(s, i + 1, vals, pads)

RECURSIVE SextetsToBytes(_)
\* The bytes carried by 6-bit values: 3 per full quad, 1 for a tail of two
\* values, 2 for a tail of three.
SextetsToBytes(v) ==
  IF Len(v) < 2 THEN <<>>
  ELSE IF Len(v) = 2
       THEN << v[1] * 4 + (v[2] \div 16) >>
  ELSE IF Len(v) = 3
       THEN << v[1] * 4 + (v[2] \div 16), (v[2] % 16) * 16 + (v[3] \div 4) >>
  ELSE << v[1] * 4 + (v[2] \div 16),
          (v[2] % 16) * 16 + (v[3] \div 4),
          (v[3] % 4) * 64 + v[4] >>
       \o SextetsToBytes(SubSeq(v, 5, Len(v)))

\* base64.b64decode(payload): [ok, data] or [ok, kind, msg].
B64Decode(payload) ==
  IF \E i \in 1..Len(payload) : payload[i] = NonAscii
  THEN [ok |-> FALSE, data |-> <<>>, kind |-> "ValueError",
        msg |-> "string argument should contain only ASCII characters"]
  ELSE LET r == B64Scan(payload, 1, <<>>, 0) IN
       IF r.padded \/ Len(r.vals) % 4 = 0
       THEN [ok |-> TRUE, data |-> SextetsToBytes(r.vals), kind |-> "",
             msg |-> ""]
       ELSE IF Len(r.vals) % 4 = 1
       THEN [ok |-> FALSE, data |-> <<>>, kind |-> "binascii.Error",
             msg |-> "Invalid base64-encoded string: number of data characters cannot be 1 more than a multiple of 4"]
       ELSE [ok |-> FALSE, data |-> <<>>, kind |-> "binascii.Error",
             msg |-> "Incorrect padding"]

(***************************************************************************)
(* zlib.decompress(zipped_data)                                            *)
(*                                                                         *)
(* The zlib container (RFC 1950: 2-byte header, deflate body, Adler-32     *)
(* trailer) with deflate's stored blocks (RFC 1951, BTYPE = 00) and its    *)
(* reserved block type (BTYPE = 11).  Huffman-coded blocks (BTYPE = 01,    *)
(* 10) are outside the model: Inflate is undefined on them and no input    *)
(* of the model holds one.                                                 *)
(***************************************************************************)
RECURSIVE SumBytes(_)
SumBytes(d) == IF d = <<>> THEN 0 ELSE Head(d) + SumBytes(Tail(d))

RECURSIVE AdlerB(_, _)
AdlerB(d, a) ==
  IF d = <<>> THEN 0
  ELSE LET a2 == (a + Head(d)) % 65521
       IN (a2 + AdlerB(Tail(d), a2)) % 65521

\* Adler-32 of d, as its four big-endian bytes.
Adler32(d) ==
  LET a == (1 + SumBytes(d)) % 65521
      b == AdlerB(d, 1)
  IN << b \div 256, b % 256, a \div 256, a % 256 >>

ZErr(msg) == [ok |-> FALSE, data |-> <<>>, kind |-> "zlib.error", msg |-> msg]

RECURSIVE Inflate(_, _, _)
\* The deflate blocks of z from position i on, out being the bytes produced
\* by the blocks before; then the Adler-32 trailer. Bytes after the trailer
\* are ignored.
Inflate(z, i, out) ==
  IF i > Len(z)
  THEN ZErr("Error -5 while decompressing data: incomplete or truncated stream")
  ELSE LET bfinal == z[i] % 2
           btype == (z[i] \div 2) % 4
       IN
       CASE btype = 3 ->
              ZErr("Error -3 while decompressing data: invalid block type")
         [] btype = 0 ->
              IF i + 4 > Len(z)
              THEN ZErr("Error -5 while decompressing data: incomplete or truncated stream")
              ELSE LET len == z[i + 1] + 256 * z[i + 2]
                       nlen == z[i + 3] + 256 * z[i + 4]
                   IN
                   IF len + nlen # 65535
                   THEN ZErr("Error -3 while decompressing data: invalid stored block lengths")
                   ELSE IF i + 4 + len > Len(z)
                   THEN ZErr("Error -5 while decompressing data: incomplete or truncated stream")
                   ELSE LET data == out \o SubSeq(z, i + 5, i + 4 + len)
                            j == i + 5 + len
                        IN
                        IF bfinal = 0 THEN Inflate(z, j, data)
                        ELSE IF j + 3 > Len(z)
                        THEN ZErr("Error -5 while decompressing data: incomplete or truncated stream")
                        ELSE IF SubSeq(z, j, j + 3) # Adler32(data)
                        THEN ZErr("Error -3 while decompressing data: incorrect data check")
                        ELSE [ok |-> TRUE, data |-> data, kind |-> "",
                              msg |-> ""]

\* zlib.decompress(zipped_data): [ok, data] or [ok, kind, msg].
Decompress(z) ==
  IF Len(z) < 2
  THEN ZErr("Error -5 while decompressing data: incomplete or truncated stream")
  ELSE IF (z[1] * 256 + z[2]) % 31 # 0
  THEN ZErr("Error -3 while decompressing data: incorrect header check")
  ELSE IF z[1] % 16 # 8
  THEN ZErr("Error -3 while decompressing data: unknown compression method")
  ELSE IF z[1] \div 16 > 7
  THEN ZErr("Error -3 while decompressing data: invalid window size")
  ELSE IF (z[2] \div 32) % 2 = 1
  THEN ZErr("Error 2 while decompressing data")
  ELSE Inflate(z, 3, <<>>)

(***************************************************************************)
(* The sender's side of the round trip: zlib compression, base64 encoding, *)
(* chunking and the 3-line groups of a transmission.                       *)
(***************************************************************************)
\* zlib.compress(b, 0): one final stored block.
Compress(b) ==
  << 120, 1, 1, Len(b) % 256, Len(b) \div 256,
     255 - (Len(b) % 256), 255 - (Len(b) \div 256) >> \o b \o Adler32(b)

RECURSIVE B64Encode(_)
\* base64.b64encode(z), as text.
B64Encode(z) ==
  IF z = <<>> THEN <<>>
  ELSE IF Len(z) = 1
       THEN << B64Alphabet[(z[1] \div 4) + 1],
               B64Alphabet[(z[1] % 4) * 16 + 1], PAD, PAD >>
  ELSE IF Len(z) = 2
       THEN << B64Alphabet[(z[1] \div 4) + 1],
               B64Alphabet[(z[1] % 4) * 16 + (z[2] \div 16) + 1],
               B64Alphabet[(z[2] % 16) * 4 + 1], PAD >>
  ELSE << B64Alphabet[(z[1] \div 4) + 1],
          B64Alphabet[(z[1] % 4) * 16 + (z[2] \div 16) + 1],
          B64Alphabet[(z[2] % 16) * 4 + (z[3] \div 64) + 1],
          B64Alphabet[(z[3] % 64) + 1] >>
       \o B64Encode(SubSeq(z, 4, Len(z)))

RECURSIVE Chunks(_, _)
\* The text cut into chunks of n characters (the last one may be shorter).
Chunks(text, n) ==
  IF Len(text) <= n THEN <<text>>
  ELSE <<SubSeq(text, 1, n)>> \o Chunks(SubSeq(text, n + 1, Len(text)), n)

RECURSIVE JoinLines(_)
\* "\n".join(lines)
JoinLines(lines) ==
  IF lines = <<>> THEN <<>>
  ELSE IF Len(lines) = 1 THEN lines[1]
  ELSE lines[1] \o <<NL>> \o JoinLines(Tail(lines))

(***************************************************************************)
(* Transmissions: what TEXT_RECEIVED may hold.  A transmission is          *)
(* described by the bytes the sender encoded, the length of a chunk, the   *)
(* style of the marker lines and one defect of the received text.          *)
(***************************************************************************)
\* The longest byte sequence a sender encodes.
MaxBytes == 2

ByteVals == {65}

\* The number of characters of a payload line (a message's size limit).
ChunkLens == {6, 8, 16}

MarkerStyles == {"index", "blank"}

Defects ==
  { "none", "lead", "crlf", "space", "bang", "nonascii", "cut", "nopayload",
    "empty", "dangling", "nolast", "badsum", "badhdr", "zeros" }

RECURSIVE SeqsUpTo(_, _)
\* The sequences over S of length at most n.
SeqsUpTo(S, n) ==
  IF n = 0 THEN {<<>>}
  ELSE LET shorter == SeqsUpTo(S, n - 1)
       IN shorter \cup {Append(q, x) : q \in shorter, x \in S}

Blobs == SeqsUpTo(ByteVals, MaxBytes)

Descriptors ==
  [blob : Blobs, size : ChunkLens, markers : MarkerStyles, defect : Defects]

Digit(k) == <<"0", "1", "2", "3", "4", "5", "6", "7", "8", "9">>[(k % 10) + 1]

\* The marker line before and after the k-th payload line (k from 0).
Marker(style, k) == IF style = "index" THEN <<Digit(k)>> ELSE <<>>

RECURSIVE GroupLines(_, _, _)
\* One 3-line group (marker, payload, marker) per chunk, as in TEXT_RECEIVED.
GroupLines(style, chunks, k) ==
  IF chunks = <<>> THEN <<>>
  ELSE << Marker(style, k), Head(chunks), Marker(style, k) >>
       \o GroupLines(style, Tail(chunks), k + 1)

\* The bytes that are base64-encoded: the zlib stream of the blob, or a
\* corrupt one.
Stream(d) ==
  LET z == Compress(d.blob) IN
  CASE d.defect = "badsum" -> [z EXCEPT ![Len(z)] = (@ + 1) % 256]
    [] d.defect = "badhdr" -> [z EXCEPT ![2] = 2]
    [] d.defect = "zeros" -> <<0, 0, 0, 0, 0, 0>>
    [] OTHER -> z

\* The payload lines as received.
PayloadLines(d) ==
  LET chunks == Chunks(B64Encode(Stream(d)), d.size) IN
  CASE d.defect = "nonascii" ->
         [chunks EXCEPT ![1] = <<Head(@), NonAscii>> \o Tail(@)]
    [] d.defect = "bang" ->
         [chunks EXCEPT ![1] = <<Head(@), "!">> \o Tail(@)]
    [] d.defect = "space" -> [k \in 1..Len(chunks) |-> chunks[k] \o <<SP>>]
    [] d.defect = "cut" ->
         [chunks EXCEPT ![Len(chunks)] = SubSeq(@, 1, Len(@) - 1)]
    [] d.defect = "nopayload" -> [k \in 1..Len(chunks) |-> <<>>]
    [] OTHER -> chunks

\* The lines as received.
ReceivedLines(d) ==
  LET ls == GroupLines(d.markers, PayloadLines(d), 0) IN
  CASE d.defect = "dangling" -> Append(ls, <<"9">>)
    [] d.defect = "nolast" -> SubSeq(ls, 1, Len(ls) - 1)
    [] d.defect = "crlf" -> [k \in 1..Len(ls) |-> ls[k] \o <<CR>>]
    [] OTHER -> ls

\* The text pasted into TEXT_RECEIVED.
Transmission(d) ==
  CASE d.defect = "empty" -> <<>>
    [] d.defect = "lead" -> <<NL>> \o JoinLines(ReceivedLines(d)) \o <<NL>>
    [] d.defect = "crlf" -> JoinLines(ReceivedLines(d)) \o <<NL>>
    [] OTHER -> JoinLines(ReceivedLines(d))

\* The outcome of the decoding stages of decode_grib_file on a text: the
\* payload, the exception of the first stage that fails (kind "" when none
\* does) and the bytes to write.
Decode(text) ==
  LET pl == Payload(Lines(text)) IN
  IF pl = <<>>
  THEN [payload |-> pl, kind |-> "ValueError",
        msg |-> "No payload data found. Check message format.", data |-> <<>>]
  ELSE LET b == B64Decode(pl) IN
       IF ~b.ok
       THEN [payload |-> pl, kind |-> b.kind, msg |-> b.msg, data |-> <<>>]
       ELSE LET z == Decompress(b.data) IN
            [payload |-> pl, kind |-> z.kind, msg |-> z.msg, data |-> z.data]

(***************************************************************************)
(* The file system and the state of a call                                 *)
(***************************************************************************)
Paths == {"a.grb", "b.grb"}

Absent == [exists |-> FALSE, data |-> <<>>]
File(bytes) == [exists |-> TRUE, data |-> bytes]

\* What a path may hold before the first call.
InitFiles == {Absent, File(<<>>), File(<<9, 9, 9>>)}

NoExc == [kind |-> "", msg |-> ""]
Exc(kind, msg) == [kind |-> kind, msg |-> msg]

\* The stages of the try block, in the order of the code.
StageOrder == <<"select", "b64", "zlib", "open", "write">>

VARIABLES
  sent,          \* the descriptor of the transmission received
  encoded_data,  \* the argument encoded_data (TEXT_RECEIVED)
  output_path,   \* the argument output_path
  fs,            \* the file at each path
  fs0,           \* fs when the current call began
  decoded,       \* decoded[p]: p was last written in full by a call
  pc,            \* the position of the current call
  lines, payload, zipped_data, grib_binary,   \* the locals
  exc,           \* the exception in flight or raised to the caller
  failedAt,      \* the stage that raised it
  ret,           \* the value returned ("" while none)
  stdout,        \* what the call printed
  trace          \* the stages the call executed

vars ==
  << sent, encoded_data, output_path, fs, fs0, decoded, pc, lines, payload,
     zipped_data, grib_binary, exc, failedAt, ret, stdout, trace >>

Init ==
  /\ sent \in Descriptors
  /\ encoded_data = Transmission(sent)
  /\ output_path = ""
  /\ fs \in [Paths -> InitFiles]
  /\ fs0 = fs
  /\ decoded = [p \in Paths |-> FALSE]
  /\ pc = "idle"
  /\ lines = <<>>
  /\ payload = <<>>
  /\ zipped_data = <<>>
  /\ grib_binary = <<>>
  /\ exc = NoExc
  /\ failedAt = ""
  /\ ret = ""
  /\ stdout = <<>>
  /\ trace = <<>>

\* The caller (cell "decode-call"): decode_grib_file(TEXT_RECEIVED, p).
Call(p) ==
  /\ pc \in {"idle", "returned", "raised"}
  /\ output_path' = p
  /\ fs0' = fs
  /\ pc' = "select"
  /\ lines' = <<>>
  /\ payload' = <<>>
  /\ zipped_data' = <<>>
  /\ grib_binary' = <<>>
  /\ exc' = NoExc
  /\ failedAt' = ""
  /\ ret' = ""
  /\ stdout' = <<>>
  /\ trace' = <<>>
  /\ UNCHANGED <<sent, encoded_data, fs, decoded>>

\* raise inside the try block: control goes to the except clause.
Raise(stage, e) ==
  /\ exc' = e
  /\ failedAt' = stage
  /\ pc' = "except"

\* Mutant of SelectLines: the empty payload is not checked.
SelectLinesNoCheck ==
  /\ pc = "select"
  /\ trace' = Append(trace, "select")
  /\ lines' = Lines(encoded_data)
  /\ payload' = Payload(lines')
  /\ pc' = "b64"
  /\ UNCHANGED << sent, encoded_data, output_path, fs, fs0, decoded,
                  zipped_data, grib_binary, exc, failedAt, ret, stdout >>

\* lines = ...; payload = ...; if not payload: raise ValueError(...)
SelectLines ==
  /\ pc = "select"
  /\ trace' = Append(trace, "select")
  /\ lines' = Lines(encoded_data)
  /\ payload' = Payload(lines')
  /\ IF payload' = <<>>
     THEN Raise("select",
                Exc("ValueError", "No payload data found. Check message format."))
     ELSE pc' = "b64" /\ UNCHANGED <<exc, failedAt>>
  /\ UNCHANGED << sent, encoded_data, output_path, fs, fs0, decoded,
                  zipped_data, grib_binary, ret, stdout >>

\* zipped_data = base64.b64decode(payload)
DecodeBase64 ==
  /\ pc = "b64"
  /\ trace' = Append(trace, "b64")
  /\ LET r == B64Decode(payload) IN
     IF r.ok
     THEN zipped_data' = r.data /\ pc' = "zlib" /\ UNCHANGED <<exc, failedAt>>
     ELSE Raise("b64", Exc(r.kind, r.msg)) /\ UNCHANGED zipped_data
  /\ UNCHANGED << sent, encoded_data, output_path, fs, fs0, decoded, lines,
                  payload, grib_binary, ret, stdout >>

\* Mutant of DecompressZlib: a corrupt stream yields no bytes instead of an
\* error.
DecompressZlibLenient ==
  /\ pc = "zlib"
  /\ trace' = Append(trace, "zlib")
  /\ grib_binary' = Decompress(zipped_data).data
  /\ pc' = "open"
  /\ UNCHANGED << sent, encoded_data, output_path, fs, fs0, decoded, lines,
                  payload, zipped_data, exc, failedAt, ret, stdout >>

\* grib_binary = zlib.decompress(zipped_data)
DecompressZlib ==
  /\ pc = "zlib"
  /\ trace' = Append(trace, "zlib")
  /\ LET r == Decompress(zipped_data) IN
     IF r.ok
     THEN grib_binary' = r.data /\ pc' = "open" /\ UNCHANGED <<exc, failedAt>>
     ELSE Raise("zlib", Exc(r.kind, r.msg)) /\ UNCHANGED grib_binary
  /\ UNCHANGED << sent, encoded_data, output_path, fs, fs0, decoded, lines,
                  payload, zipped_data, ret, stdout >>

\* Mutant of OpenWB: the file is opened without being truncated ('ab').
OpenAppend(file) == File(file.data)

\* What open(path, 'wb') leaves of the file at the path: an empty file.
OpenWB(file) == File(<<>>)

\* open(output_path, 'wb'): creates or truncates the file, or fails
\* (permissions, a missing directory) and leaves it as it was.
OpenOutput ==
  /\ pc = "open"
  /\ trace' = Append(trace, "open")
  /\ \/ /\ fs' = [fs EXCEPT ![output_path] = OpenWB(@)]
        /\ decoded' = [decoded EXCEPT ![output_path] = FALSE]
        /\ pc' = "write"
        /\ UNCHANGED <<exc, failedAt>>
     \/ /\ Raise("open", Exc("OSError", "Permission denied"))
        /\ UNCHANGED <<fs, decoded>>
  /\ UNCHANGED << sent, encoded_data, output_path, fs0, lines, payload,
                  zipped_data, grib_binary, ret, stdout >>

\* f.write(grib_binary) and the close at the end of the with block: all the
\* bytes reach the file, or the device fails (disk full) after some of them.
WriteOutput ==
  /\ pc = "write"
  /\ trace' = Append(trace, "write")
  /\ \/ /\ fs' = [fs EXCEPT ![output_path] = File(@.data \o grib_binary)]
        /\ decoded' = [decoded EXCEPT ![output_path] = TRUE]
        /\ pc' = "report"
        /\ UNCHANGED <<exc, failedAt>>
     \/ /\ \E k \in 0..(Len(grib_binary) - 1) :
             fs' = [fs EXCEPT
                      ![output_path] = File(@.data \o SubSeq(grib_binary, 1, k))]
        /\ Raise("write", Exc("OSError", "No space left on device"))
        /\ UNCHANGED decoded
  /\ UNCHANGED << sent, encoded_data, output_path, fs0, lines, payload,
                  zipped_data, grib_binary, ret, stdout >>

\* print(f"Decoded GRIB file saved to: ..."); return output_path
ReportSuccess ==
  /\ pc = "report"
  /\ stdout' = Append(stdout, [text |-> "Decoded GRIB file saved to: ",
                               path |-> output_path,
                               size |-> Len(grib_binary)])
  /\ ret' = output_path
  /\ pc' = "returned"
  /\ UNCHANGED << sent, encoded_data, output_path, fs, fs0, decoded, lines,
                  payload, zipped_data, grib_binary, exc, failedAt, trace >>

\* Mutant of HandleException: the error is printed and swallowed, the path
\* returned.
HandleExceptionSwallow ==
  /\ pc = "except"
  /\ stdout' = Append(stdout, [text |-> "Error decoding GRIB file: ",
                               e |-> exc.msg])
  /\ ret' = output_path
  /\ pc' = "returned"
  /\ UNCHANGED << sent, encoded_data, output_path, fs, fs0, decoded, lines,
                  payload, zipped_data, grib_binary, exc, failedAt, trace >>

\* except Exception as e: print(f"Error decoding GRIB file: {e}"); raise
HandleException ==
  /\ pc = "except"
  /\ stdout' = Append(stdout, [text |-> "Error decoding GRIB file: ",
                               e |-> exc.msg])
  /\ pc' = "raised"
  /\ UNCHANGED << sent, encoded_data, output_path, fs, fs0, decoded, lines,
                  payload, zipped_data, grib_binary, exc, failedAt, ret, trace >>

Next ==
  \/ \E p \in Paths : Call(p)
  \/ SelectLines
  \/ DecodeBase64
  \/ DecompressZlib
  \/ OpenOutput
  \/ WriteOutput
  \/ ReportSuccess
  \/ HandleException

Spec == Init /\ [][Next]_vars

(***************************************************************************)
(* Properties                                                              *)
(***************************************************************************)
PureStages == {"select", "b64", "zlib"}
Failed == pc \in {"except", "raised"}
Over == pc \in {"returned", "raised"}

\* The payload positions as the claims state them: 0-based i with i mod 3 = 1.
ClaimPositions(ls) == {k \in 1..Len(ls) : \E g \in 0..Len(ls) : k = 3 * g + 2}

\* The decoding stages of the current call are just over, and their outcome.
PureDone == pc = "open" \/ (pc = "except" /\ failedAt \in PureStages)
CallOutcome ==
  IF failedAt \in PureStages
  THEN [payload |-> payload, kind |-> exc.kind, msg |-> exc.msg, data |-> <<>>]
  ELSE [payload |-> payload, kind |-> "", msg |-> "", data |-> grib_binary]

\* A transmission as the sender makes it: index marker lines, no defect
\* (with or without the blank first and last line of TEXT_RECEIVED).
WellFormed == sent.markers = "index" /\ sent.defect \in {"none", "lead"}

\* C1. Round trip: for the bytes B zlib-compressed, base64-encoded, cut into
\* chunks and each chunk put between two index marker lines, no decoding
\* stage of decode_grib_file fails, the bytes decompressed are B, and a call
\* that returns leaves exactly B in the file at output_path.
C1_RoundTrip ==
  WellFormed =>
    /\ Failed => failedAt \in {"open", "write"}
    /\ pc \in {"open", "write", "report", "returned"} => grib_binary = sent.blob
    /\ pc = "returned" => fs[output_path] = File(sent.blob)

\* C1, witness: a transmission of two groups or more of a non-empty B has
\* been decoded and B is in the file.
C1_Witness ==
  /\ WellFormed
  /\ pc = "returned"
  /\ Len(lines) >= 6
  /\ sent.blob # <<>>
  /\ fs[output_path] = File(sent.blob)

\* C2. All or nothing: a call that fails, at whatever stage (line selection,
\* base64, decompression, opening or writing output_path), leaves every file
\* as it was when the call began.
C2_AllOrNothing == Failed => fs = fs0

FormatError == Exc("ValueError", "No payload data found. Check message format.")
AllPayloadLinesEmpty(ls) == \A k \in ClaimPositions(ls) : ls[k] = <<>>
FailsWithFormatError ==
  /\ Failed
  /\ failedAt = "select"
  /\ exc = FormatError
  /\ trace = <<"select">>
  /\ fs = fs0

\* C3, as stated. A call on an input whose trimmed line count is not a
\* multiple of 3, or whose payload-position lines are all empty, fails with
\* the format error 'No payload data found' and leaves the files as they
\* were.
C3_Original ==
  LET ls == Split(Strip(encoded_data)) IN
  (Over /\ (Len(ls) % 3 # 0 \/ AllPayloadLinesEmpty(ls)))
    => FailsWithFormatError

\* C3, amended. A call on an input whose payload-position lines (of the
\* trimmed text) are all empty fails in line selection with 'No payload
\* data found', no later stage runs and the files stay as they were; every
\* other input passes line selection, whatever its number of lines.
C3_EmptyPayloadFails ==
  LET ls == Split(Strip(encoded_data)) IN
  pc \notin {"idle", "select"} =>
    (AllPayloadLinesEmpty(ls) <=> FailsWithFormatError)

\* C3, witness: a transmission of complete groups with empty payload lines
\* was refused and the file that existed is untouched.
C3_Witness ==
  /\ pc = "raised"
  /\ exc = FormatError
  /\ Len(lines) >= 3
  /\ fs0[output_path].exists
  /\ fs = fs0

HasNonAlphabet(pl) == \E k \in 1..Len(pl) : pl[k] \notin (B64Chars \cup {PAD})

\* C4. A call whose payload holds a character outside the base64 alphabet (a
\* carriage return or a space at the end of a payload line included) fails
\* at the base64 stage and leaves the files as they were.
C4_RejectsNonAlphabet ==
  (Over /\ HasNonAlphabet(payload))
    => (pc = "raised" /\ failedAt = "b64" /\ fs = fs0)

\* C5. A call whose (non-empty) payload base64-decodes to bytes that are not
\* a zlib stream fails at the decompression stage with zlib.error; open and
\* write are never reached and the files stay as they were.
C5_BadStreamFails ==
  LET b == B64Decode(payload) IN
  (pc \notin {"idle", "select", "b64", "zlib"} /\ payload # <<>> /\ b.ok
     /\ ~Decompress(b.data).ok)
    => /\ Failed
       /\ failedAt = "zlib"
       /\ exc.kind = "zlib.error"
       /\ trace = <<"select", "b64", "zlib">>
       /\ fs = fs0

\* C5, witness: a corrupt stream was refused and the file that existed is
\* untouched.
C5_Witness ==
  /\ pc = "raised"
  /\ failedAt = "zlib"
  /\ exc.kind = "zlib.error"
  /\ fs0[output_path] = File(<<9, 9, 9>>)
  /\ fs = fs0

\* ls is the trimmed text split on newlines.
TrimmedSplitOf(text, ls) ==
  LET t == JoinLines(ls) IN
  /\ \A k \in 1..Len(ls) : \A m \in 1..Len(ls[k]) : ls[k][m] # NL
  /\ t = <<>> \/ (t[1] \notin Whitespace /\ t[Len(t)] \notin Whitespace)
  /\ \E i \in 0..Len(text) : \E j \in i..Len(text) :
       /\ SubSeq(text, i + 1, j) = t
       /\ \A m \in 1..i : text[m] \in Whitespace
       /\ \A m \in (j + 1)..Len(text) : text[m] \in Whitespace

RECURSIVE OffsetOf(_, _)
\* The number of payload characters before line k.
OffsetOf(ls, k) ==
  IF k <= 1 THEN 0
  ELSE OffsetOf(ls, k - 1)
       + (IF (k - 1) \in ClaimPositions(ls) THEN Len(ls[k - 1]) ELSE 0)

\* pl is the lines of ls at the payload positions, one after the other in
\* increasing index order.
ConcatInOrder(ls, pl) ==
  /\ Len(pl) = OffsetOf(ls, Len(ls) + 1)
  /\ \A k \in ClaimPositions(ls) :
       SubSeq(pl, OffsetOf(ls, k) + 1, OffsetOf(ls, k) + Len(ls[k])) = ls[k]

\* The lines with the 3-line groups g and h (from 0) exchanged.
SwapGroups(ls, g, h) ==
  [k \in 1..Len(ls) |->
     IF (k - 1) \div 3 = g THEN ls[k + 3 * (h - g)]
     ELSE IF (k - 1) \div 3 = h THEN ls[k - 3 * (h - g)]
     ELSE ls[k]]

\* The pairs of complete groups of ls.
GroupPairs(ls) ==
  {gh \in (0..(Len(ls) \div 3)) \X (0..(Len(ls) \div 3)) :
     gh[1] < gh[2] /\ 3 * gh[2] + 3 <= Len(ls)}

\* The payload the code selects from the lines ls.
PayloadOfLines(ls) == Payload(ls)

\* C6, as stated. The payload is the concatenation, with no separator and in
\* increasing index order, of the lines at index i mod 3 = 1 of the trimmed
\* input split on newlines, and swapping two 3-line groups (of these lines)
\* whose payload lines differ yields a different payload.
C6_Original ==
  pc \notin {"idle", "select"} =>
    /\ TrimmedSplitOf(encoded_data, lines)
    /\ ConcatInOrder(lines, payload)
    /\ \A gh \in GroupPairs(lines) :
         lines[3 * gh[1] + 2] # lines[3 * gh[2] + 2]
           => PayloadOfLines(SwapGroups(lines, gh[1], gh[2])) # payload

\* C6, amended. The payload is the concatenation, with no separator and in
\* increasing index order, of the lines at index i mod 3 = 1 of the trimmed
\* input split on newlines, and swapping two 3-line groups (of these lines)
\* whose payload lines differ and have the same length yields a different
\* payload.
C6_PositionalOrder ==
  pc \notin {"idle", "select"} =>
    /\ TrimmedSplitOf(encoded_data, lines)
    /\ ConcatInOrder(lines, payload)
    /\ \A gh \in GroupPairs(lines) :
         (/\ lines[3 * gh[1] + 2] # lines[3 * gh[2] + 2]
          /\ Len(lines[3 * gh[1] + 2]) = Len(lines[3 * gh[2] + 2]))
           => PayloadOfLines(SwapGroups(lines, gh[1], gh[2])) # payload

\* C6, witness: line selection has run on three groups or more, two of them
\* with different payload lines of the same length.
C6_Witness ==
  /\ pc = "b64"
  /\ Len(lines) >= 9
  /\ ConcatInOrder(lines, payload)
  /\ \E gh \in GroupPairs(lines) :
       /\ lines[3 * gh[1] + 2] # lines[3 * gh[2] + 2]
       /\ Len(lines[3 * gh[1] + 2]) = Len(lines[3 * gh[2] + 2])
       /\ PayloadOfLines(SwapGroups(lines, gh[1], gh[2])) # payload

\* What a marker line is replaced by.
MarkerPool == {<<>>, <<SP>>, <<"9">>}

\* Texts that differ from a text in marker lines only (one marker line
\* replaced, or all of them): the same number of lines and the same lines at
\* the payload positions of the raw text.
MarkerVariants(text) ==
  LET rl == Split(text)
      mp == (1..Len(rl)) \ ClaimPositions(rl)
  IN {JoinLines([rl EXCEPT ![k] = m]) : k \in mp, m \in MarkerPool}
     \cup {JoinLines([k \in 1..Len(rl) |-> IF k \in mp THEN m ELSE rl[k]]) :
             m \in MarkerPool}

\* The trimmed texts have the same number of lines and the same lines at
\* the payload positions.
SameTrimmedLayout(x, y) ==
  LET lx == Split(Strip(x))
      ly == Split(Strip(y))
  IN /\ Len(lx) = Len(ly)
     /\ \A k \in ClaimPositions(lx) : lx[k] = ly[k]

\* C7, as stated. Marker content is ignored: two raw transmissions with the
\* same number of lines and the same lines at the payload positions of the
\* raw text (an empty or blank first or last marker line included) have the
\* same payload, the same success or failure and the same bytes.
C7_Original ==
  PureDone => \A y \in MarkerVariants(encoded_data) : Decode(y) = CallOutcome

\* C7, amended. Marker content is ignored: two transmissions whose trimmed
\* texts have the same number of lines and the same lines at the payload
\* positions have the same payload, the same success or failure and the
\* same bytes.
C7_MarkersIgnored ==
  PureDone =>
    \A y \in MarkerVariants(encoded_data) :
      SameTrimmedLayout(encoded_data, y) => Decode(y) = CallOutcome

\* C7, witness: the transmission decoded has two groups or more and a
\* different text with the same trimmed layout, which decodes alike.
C7_Witness ==
  /\ pc = "open"
  /\ Len(lines) >= 6
  /\ \E y \in MarkerVariants(encoded_data) :
       /\ Strip(y) # Strip(encoded_data)
       /\ SameTrimmedLayout(encoded_data, y)
       /\ Decode(y) = CallOutcome

\* C8. A call that returns leaves exactly the decompressed bytes in the file
\* at output_path, whatever the file held before, and returns output_path;
\* the files written by two calls on the same input hold the same bytes.
C8_ExactOutput ==
  /\ pc = "returned" =>
       /\ fs[output_path] = File(grib_binary)
       /\ ret = output_path
  /\ \A p, q \in Paths : decoded[p] /\ decoded[q] => fs[p] = fs[q]
  /\ \A p \in Paths : decoded[p] => fs[p] = File(Decode(encoded_data).data)

\* C8, witness: the call has replaced a longer file, and both paths hold a
\* decoded file.
C8_Witness ==
  /\ pc = "returned"
  /\ Len(fs0[output_path].data) > Len(grib_binary)
  /\ grib_binary # <<>>
  /\ \A p \in Paths : decoded[p]

IsPrefix(a, b) == Len(a) <= Len(b) /\ a = SubSeq(b, 1, Len(a))

\* In every state of a call: the stages have run in the order of the code,
\* each at most once; the stage that failed is the last that ran; a call
\* that raised printed the one error report and returned nothing; a call
\* that returned ran every stage, printed the one success report and holds
\* no error.
C9_State ==
  /\ IsPrefix(trace, StageOrder)
  /\ failedAt # "" => (Failed /\ trace # <<>> /\ trace[Len(trace)] = failedAt)
  /\ Failed => (exc # NoExc /\ failedAt # "" /\ ret = "")
  /\ pc = "except" => stdout = <<>>
  /\ pc = "raised" =>
       stdout = <<[text |-> "Error decoding GRIB file: ", e |-> exc.msg]>>
  /\ pc = "returned" =>
       /\ exc = NoExc
       /\ ret = output_path
       /\ trace = StageOrder
       /\ stdout = <<[text |-> "Decoded GRIB file saved to: ",
                      path |-> output_path, size |-> Len(grib_binary)]>>

\* In every step of a call: the step after a failure is the handler's, which
\* raises the same error to the caller and runs no stage; nothing follows a
\* raise but the caller's next call.
C9_Step ==
  /\ pc = "except" =>
       (pc' = "raised" /\ exc' = exc /\ failedAt' = failedAt
          /\ trace' = trace /\ fs' = fs)
  /\ pc = "raised" => (pc' = "select" /\ trace' = <<>> /\ stdout' = <<>>)

\* C9. Every error is propagated to the caller at once and never retried:
\* once a stage fails no later stage runs and none runs twice, one error
\* report is printed and the same error is raised; a call never both prints
\* the success report and raises, and never swallows an error and returns.
C9_PropagatedOnce == [](C9_State) /\ [][C9_Step]_vars

\* C9, witness: a call failed at the base64 stage and raised after one
\* report.
C9_Witness ==
  /\ pc = "raised"
  /\ failedAt = "b64"
  /\ trace = <<"select", "b64">>
  /\ Len(stdout) = 1

\* The stages whose failures an error kind stands for, if the kind is to
\* tell the stage: line selection raises ValueError.
StageOfKind(kind) ==
  CASE kind = "ValueError" -> {"select"}
    [] kind = "binascii.Error" -> {"b64"}
    [] kind = "zlib.error" -> {"zlib"}
    [] kind = "OSError" -> {"open", "write"}
    [] OTHER -> {}

\* C10. Every failure is reported and raised tagged with its stage: the
\* report names the stage, and the kind of the error raised tells the stage
\* that failed.
C10_StageTagged ==
  pc = "raised" =>
    /\ failedAt \in StageOfKind(exc.kind)
    /\ "stage" \in DOMAIN stdout[1]

====
